---- MODULE Spec2Model ----
(***************************************************************************)
(* Model of the document-chunking and index/retrieve pipeline of           *)
(* ai-wiki-search (backend/embedding_pipeline*.py, backend/rag_engine*.py, *)
(* backend/main*.py).                                                      *)
(*                                                                         *)
(* A text is a sequence of characters.  The code distinguishes characters  *)
(* by two predicates only: "is it one of '.!?\n'" (sentence terminator)    *)
(* and "does str.strip() remove it" (whitespace).  The alphabet therefore  *)
(* has one representative per class:                                       *)
(*    "a"  : neither          " "  : whitespace, not a terminator          *)
(*    "."  : terminator       "\n" : whitespace and terminator             *)
(* Python indexes from 0, TLA+ sequences from 1; the operators At and      *)
(* Slice take Python indexes (negative ones included) and translate.       *)
(***************************************************************************)
EXTENDS Integers, Sequences, FiniteSets, TLC

VARIABLES
    \* ---- one call of chunk_text ----
    text,        \* argument text
    chunk_size,  \* argument chunk_size
    overlap,     \* argument overlap
    cpc,         \* position in chunk_text: "call", "loop", "done", "raised"
    start,       \* local cursor `start`
    chunks,      \* local list `chunks`; the returned list once cpc = "done"
    windows,     \* one record per executed loop iteration, in order
    \* ---- one service process (main.py / main_free.py) ----
    variant,     \* "remote": main.py, embedding_pipeline.py, rag_engine.py
                 \* "free": main_free.py, embedding_pipeline_free.py,
                 \*         rag_engine_free.py
    configured,  \* AZURE_OPENAI_ENDPOINT and AZURE_OPENAI_API_KEY are set
    svc,         \* "import", "startup", "serving", "crashed"
    dirs,        \* the file system: documents path -> directory
    store,       \* the collection "documents" of the persistent client
    pipeline_collection,  \* indexing_pipeline.collection
    rag_engine,  \* the global rag_engine and its .collection
    last,        \* the last request handled and its response
    \* ---- one call of IndexingPipeline.store_in_database ----
    texts,          \* argument chunks, passed on to generate_embeddings
    failing,        \* the batches whose remote embedding call fails
    embedding_dim,  \* vector length of the configured embedding deployment
    epc,            \* position: "call", "loop", "returned", "stored",
                    \* "raised"
    batch_i,        \* loop variable i of generate_embeddings
    submitted,      \* the batches handed to the remote call so far
    embeddings,     \* local list `embeddings`
    written         \* the vectors the collection holds after add

chunkVars == <<text, chunk_size, overlap, cpc, start, chunks, windows>>

svcVars == <<variant, configured, svc, dirs, store, pipeline_collection,
             rag_engine, last>>

embedVars == <<texts, failing, embedding_dim, epc, batch_i, submitted,
               embeddings, written>>

vars == <<text, chunk_size, overlap, cpc, start, chunks, windows,
          variant, configured, svc, dirs, store, pipeline_collection,
          rag_engine, last,
          texts, failing, embedding_dim, epc, batch_i, submitted,
          embeddings, written>>

\* ------------------------------------------------------------------------
\* Bounds of the explored input space
\* ------------------------------------------------------------------------
MaxLen == 5        \* all texts up to this length are enumerated
MaxChunk == 3      \* chunk_size ranges over 1..MaxChunk for those texts
MaxOverlap == 3    \* overlap ranges over 0..MaxOverlap
MaxIter == 7       \* cap on the loop iterations followed in one call
LongChunk == 102   \* a chunk_size above the 100-character search slack
MaxExtra == 3      \* long texts have length up to LongChunk + MaxExtra

\* ------------------------------------------------------------------------
\* Characters and Python string primitives
\* ------------------------------------------------------------------------
NL == "\n"

Chars == {"a", " ", ".", NL}

\* text[i] in '.!?\n'
IsTerminator(c) == c \in {".", NL}

\* characters removed by str.strip()
IsSpace(c) == c \in {" ", NL}

Max(a, b) == IF a >= b THEN a ELSE b

Min(a, b) == IF a <= b THEN a ELSE b

SetMax(S) == CHOOSE x \in S : \A y \in S : y <= x

\* Python s[i] is defined for -len(s) <= i < len(s)
InRange(s, i) == -Len(s) <= i /\ i < Len(s)

\* Python s[i], i in range
At(s, i) == IF i >= 0 THEN s[i + 1] ELSE s[Len(s) + i + 1]

\* Python slice bound normalisation: negative counts from the end, then clamp
Clamp(s, i) == IF i < 0 THEN Max(Len(s) + i, 0) ELSE Min(i, Len(s))

\* Python s[lo:hi]
Slice(s, lo, hi) == SubSeq(s, Clamp(s, lo) + 1, Clamp(s, hi))

\* Python s.strip(): 1-based positions of the first and last kept character
Kept(s) == {k \in 1..Len(s) : ~IsSpace(s[k])}

Strip(s) == IF Kept(s) = {} THEN <<>>
            ELSE SubSeq(s, CHOOSE k \in Kept(s) : \A j \in Kept(s) : k <= j,
                           SetMax(Kept(s)))

\* ------------------------------------------------------------------------
\* chunk_text  (embedding_pipeline.py:68-93, embedding_pipeline_free.py:52-77)
\* ------------------------------------------------------------------------
SearchSlack == 100

\* `return [text]` with the text trimmed
SingleChunkStripped(t) == <<Strip(t)>>

\* `return [text]`
SingleChunk(t) == <<t>>

\* the values of i in `range(end, max(start + chunk_size - 100, start), -1)`
ScanRange(st, cs) == (Max(st + cs - SearchSlack, st) + 1)..(st + cs)

\* the i of the scan at which `text[i] in '.!?\n'` holds
Found(t, st, cs) ==
    {i \in ScanRange(st, cs) : InRange(t, i) /\ IsTerminator(At(t, i))}

\* The scan runs downwards, so the indexes below -len(text) come last: it
\* raises IndexError iff it is entered, meets no terminator and its range
\* holds an index outside the text.
ScanRaises(t, st, cs) ==
    /\ st + cs < Len(t)
    /\ Found(t, st, cs) = {}
    /\ \E i \in ScanRange(st, cs) : ~InRange(t, i)

\* `end` after lines 77-85
WindowEnd(t, st, cs) ==
    IF st + cs < Len(t) /\ Found(t, st, cs) # {}
    THEN SetMax(Found(t, st, cs)) + 1
    ELSE st + cs

\* `text[start:end]` without its end bound
WindowTextToEnd(t, st, en) == Slice(t, st, Len(t))

\* `text[start:end]`
WindowText(t, st, en) == Slice(t, st, en)

\* `if chunk: chunks.append(chunk)` without the test
EmitAlways(cks, chunk) == Append(cks, chunk)

\* `if chunk: chunks.append(chunk)`
Emit(cks, chunk) == IF chunk # <<>> THEN Append(cks, chunk) ELSE cks

\* `start = end - overlap` advanced one character too far
NextStartSkip(en, ov) == en - ov + 1

\* `start = end - overlap`
NextStart(en, ov) == en - ov

\* `while start < len(text)` off by one
LoopCondInclusive(t, st) == st <= Len(t)

\* `while start < len(text)`
LoopCond(t, st) == st < Len(t)

\* line 70-71: `if len(text) <= chunk_size: return [text]`
ChunkShort ==
    /\ cpc = "call"
    /\ Len(text) <= chunk_size
    /\ chunks' = SingleChunk(text)
    /\ cpc' = "done"
    /\ UNCHANGED <<text, chunk_size, overlap, start, windows>>
    /\ UNCHANGED svcVars
    /\ UNCHANGED embedVars

\* lines 73-74: `chunks = []; start = 0`
ChunkEnter ==
    /\ cpc = "call"
    /\ Len(text) > chunk_size
    /\ chunks' = <<>>
    /\ start' = 0
    /\ cpc' = "loop"
    /\ UNCHANGED <<text, chunk_size, overlap, windows>>
    /\ UNCHANGED svcVars
    /\ UNCHANGED embedVars

\* lines 76-91: one iteration of the while loop
ChunkIter ==
    /\ cpc = "loop"
    /\ LoopCond(text, start)
    /\ Len(windows) < MaxIter
    /\ ~ScanRaises(text, start, chunk_size)
    /\ LET end == WindowEnd(text, start, chunk_size)
           chunk == Strip(WindowText(text, start, end))
       IN /\ chunks' = Emit(chunks, chunk)
          /\ windows' = Append(windows,
                               [start |-> start, end |-> end, chunk |-> chunk])
          /\ start' = NextStart(end, overlap)
    /\ UNCHANGED <<text, chunk_size, overlap, cpc>>
    /\ UNCHANGED svcVars
    /\ UNCHANGED embedVars

\* line 83 indexes outside the text: IndexError leaves chunk_text
ChunkRaise ==
    /\ cpc = "loop"
    /\ LoopCond(text, start)
    /\ Len(windows) < MaxIter
    /\ ScanRaises(text, start, chunk_size)
    /\ cpc' = "raised"
    /\ UNCHANGED <<text, chunk_size, overlap, start, chunks, windows>>
    /\ UNCHANGED svcVars
    /\ UNCHANGED embedVars

\* line 76 false, line 93: `return chunks`
ChunkReturn ==
    /\ cpc = "loop"
    /\ ~LoopCond(text, start)
    /\ cpc' = "done"
    /\ UNCHANGED <<text, chunk_size, overlap, start, chunks, windows>>
    /\ UNCHANGED svcVars
    /\ UNCHANGED embedVars

\* ------------------------------------------------------------------------
\* Service state
\* ------------------------------------------------------------------------
\* A collection handle is the uid of the collection it was obtained for;
\* every create_collection yields a fresh uid.
NoHandle == 0

\* rag_engine = None
NoEngine == [made |-> FALSE, collection |-> NoHandle]

\* no collection "documents" in the client's directory
NoCollection == [uid |-> NoHandle, cosine |-> FALSE, entries |-> {}]

\* the response fields of a request that does not produce them keep these
\* values; embed_ok, query_ok, generate_ok, n_results: the inputs of an
\* ask; results: what the index answered to its query
NoRequest == [op |-> "none", path |-> "", status |-> "",
              documents_processed |-> 0, chunks_created |-> 0,
              queried |-> NoHandle,
              n_results |-> 0, embed_ok |-> TRUE, query_ok |-> TRUE,
              generate_ok |-> TRUE, generation_called |-> FALSE,
              results |-> <<>>, sources |-> <<>>, answer |-> <<>>,
              total_documents |-> 0]

\* the service variables while only chunk_text is exercised
ServiceIdle ==
    /\ variant = "remote"
    /\ configured = TRUE
    /\ svc = "import"
    /\ dirs = <<>>
    /\ store = NoCollection
    /\ pipeline_collection = NoHandle
    /\ rag_engine = NoEngine
    /\ last = NoRequest

\* the chunk_text variables while the service is exercised
ChunkIdle ==
    /\ text = <<>>
    /\ chunk_size = 0
    /\ overlap = 0
    /\ cpc = "idle"
    /\ start = 0
    /\ chunks = <<>>
    /\ windows = <<>>

\* the store_in_database variables while another part is exercised
EmbedIdle ==
    /\ texts = <<>>
    /\ failing = {}
    /\ embedding_dim = 0
    /\ epc = "idle"
    /\ batch_i = 0
    /\ submitted = {}
    /\ embeddings = <<>>
    /\ written = <<>>

\* ---- inputs ----
ShortTexts == UNION {[1..n -> Chars] : n \in 0..MaxLen}

\* texts longer than LongChunk: letters with one other character, which
\* lies near the start of the text (around the lower end of the sentence
\* search of the first window) or around the end of the first window
LongTexts ==
    {[i \in 1..n |-> IF i = p THEN c ELSE "a"] :
        n \in (LongChunk + 1)..(LongChunk + MaxExtra),
        p \in (1..(MaxExtra + 3))
              \cup ((LongChunk - MaxExtra)..(LongChunk + MaxExtra)),
        c \in Chars}

ChunkInit ==
    /\ text \in ShortTexts \cup LongTexts
    /\ chunk_size \in (1..MaxChunk) \cup {LongChunk}
    /\ overlap \in 0..MaxOverlap
    /\ cpc = "call"
    /\ start = 0
    /\ chunks = <<>>
    /\ windows = <<>>
    /\ ServiceIdle
    /\ EmbedIdle

ChunkNext ==
    \/ ChunkShort
    \/ ChunkEnter
    \/ ChunkIter
    \/ ChunkRaise
    \/ ChunkReturn

ChunkSpec == ChunkInit /\ [][ChunkNext]_vars

\* ------------------------------------------------------------------------
\* Properties of chunk_text
\* ------------------------------------------------------------------------
Returned == cpc = "done"

LoopPath == Len(text) > chunk_size

ValidOverlap == 0 <= overlap /\ overlap < chunk_size

NoTerminator == \A j \in 1..Len(text) : ~IsTerminator(text[j])

CeilDiv(a, b) == (a + b - 1) \div b

Abs(x) == IF x < 0 THEN -x ELSE x

\* the part of window k that lies after the end of window k-1
RECURSIVE NonOverlapping(_)
NonOverlapping(k) ==
    IF k = 0 THEN <<>>
    ELSE NonOverlapping(k - 1) \o
         Slice(text,
               IF k = 1 THEN windows[k].start
               ELSE Max(windows[k - 1].end, windows[k].start),
               windows[k].end)

\* C1: with 0 <= overlap < chunk_size the cursor `start` strictly increases
\* on every loop iteration, so the loop of chunk_text terminates.
C1_CursorAdvances ==
    ValidOverlap =>
        \A k \in 1..Len(windows) :
            NextStart(windows[k].end, overlap) > windows[k].start

\* C2: a text no longer than chunk_size (the empty and the whitespace-only
\* text included) is returned as the single element of the list, untrimmed.
C2_ShortTextSingleChunk ==
    (Returned /\ ~LoopPath) => chunks = <<text>>

C2_Witness ==
    /\ Returned
    /\ ~LoopPath
    /\ text # <<>>
    /\ Strip(text) # text
    /\ chunks = <<text>>

\* C3 (original): every string chunk_text returns is non-empty, for every
\* text, chunk size and overlap.
C3_AllChunksNonEmpty ==
    Returned => \A k \in 1..Len(chunks) : chunks[k] # <<>>

\* C3 (amended): for every non-empty text, every string chunk_text returns
\* is non-empty; the empty text is returned as the one-element list [""].
C3_NonEmptyTextChunksNonEmpty ==
    /\ (Returned /\ text # <<>>) => \A k \in 1..Len(chunks) : chunks[k] # <<>>
    /\ (Returned /\ text = <<>>) => chunks = << <<>> >>

C3_Witness ==
    /\ Returned
    /\ LoopPath
    /\ chunks # <<>>
    /\ \E k \in 1..Len(windows) : windows[k].chunk = <<>>

\* C4: with overlap < chunk_size no returned chunk is longer than chunk_size,
\* also when the character at index start + chunk_size is a terminator.
C4_ChunkWithinChunkSize ==
    ValidOverlap => \A k \in 1..Len(chunks) : Len(chunks[k]) <= chunk_size

\* C5: for len(text) > chunk_size and overlap < chunk_size the windows leave
\* no gap: every index of the text lies in a window, every character that
\* is not whitespace lies in a returned chunk, and the windows' parts that
\* do not overlap their predecessor concatenate to the text.
C5_WindowsContiguous ==
    (Returned /\ LoopPath /\ ValidOverlap) =>
        /\ \A j \in 0..(Len(text) - 1) :
              \E k \in 1..Len(windows) :
                  /\ windows[k].start <= j
                  /\ j < windows[k].end
                  /\ \/ IsSpace(At(text, j))
                     \/ \E m \in 1..Len(chunks) : chunks[m] = windows[k].chunk
        /\ \A k \in 1..(Len(windows) - 1) :
              windows[k + 1].start <= windows[k].end
        /\ NonOverlapping(Len(windows)) = text

C5_Witness ==
    /\ Returned
    /\ LoopPath
    /\ ValidOverlap
    /\ overlap > 0
    /\ Len(chunks) >= 2
    /\ \E k \in 1..Len(windows) :
          /\ windows[k].chunk # <<>>
          /\ windows[k].chunk # Slice(text, windows[k].start, windows[k].end)

\* C6: consecutive chunks of a text longer than chunk_size share exactly
\* `overlap` characters of the text, the last pair included.
C6_ConsecutiveOverlapExact ==
    (Returned /\ LoopPath /\ ValidOverlap) =>
        \A k \in 1..(Len(windows) - 1) :
            (windows[k].chunk # <<>> /\ windows[k + 1].chunk # <<>>) =>
                Min(windows[k].end, Len(text)) - windows[k + 1].start = overlap

\* C7 (original): for a text of length L > chunk_size without terminators
\* the number of returned chunks is within 1 of
\* ceil((L - overlap) / (chunk_size - overlap)).
C7_ChunkCountFormula ==
    (Returned /\ LoopPath /\ ValidOverlap /\ NoTerminator) =>
        Abs(Len(chunks) - CeilDiv(Len(text) - overlap, chunk_size - overlap))
            <= 1

\* C7 (amended): for such a text the number of windows cut (returned chunks
\* plus windows dropped because they trim to empty) is
\* ceil(L / (chunk_size - overlap)); it is within 1 of
\* ceil((L - overlap) / (chunk_size - overlap)) when 2 * overlap <= chunk_size,
\* and the number of returned chunks does not exceed it.
C7_WindowCountFormula ==
    (Returned /\ LoopPath /\ ValidOverlap /\ NoTerminator) =>
        /\ Len(windows) = CeilDiv(Len(text), chunk_size - overlap)
        /\ Len(chunks) <= Len(windows)
        /\ Len(chunks) = Cardinality({k \in 1..Len(windows) :
                                        windows[k].chunk # <<>>})
        /\ (2 * overlap <= chunk_size) =>
              Abs(Len(windows)
                  - CeilDiv(Len(text) - overlap, chunk_size - overlap)) <= 1

C7_Witness ==
    /\ Returned
    /\ LoopPath
    /\ ValidOverlap
    /\ NoTerminator
    /\ overlap > 0
    /\ 2 * overlap <= chunk_size
    /\ Len(chunks) >= 1
    /\ Len(chunks) + 2 <= Len(windows)

\* C8: for len(text) > chunk_size and overlap < chunk_size no chunk is
\* longer than chunk_size plus the 100-character search slack.
C8_ChunkWithinSlack ==
    (LoopPath /\ ValidOverlap) =>
        \A k \in 1..Len(chunks) : Len(chunks[k]) <= chunk_size + SearchSlack

C8_Witness ==
    /\ Returned
    /\ LoopPath
    /\ ValidOverlap
    /\ chunk_size > SearchSlack
    /\ \E k \in 1..Len(chunks) : Len(chunks[k]) = chunk_size + 1

\* ------------------------------------------------------------------------
\* chunk_text as a function, for its caller run()
\* ------------------------------------------------------------------------
DefaultChunkSize == 1000

DefaultOverlap == 200

RECURSIVE ChunkLoop(_, _, _, _, _)
ChunkLoop(t, cs, ov, st, cks) ==
    IF ~LoopCond(t, st) THEN cks
    ELSE LET end == WindowEnd(t, st, cs)
         IN ChunkLoop(t, cs, ov, NextStart(end, ov),
                      Emit(cks, Strip(WindowText(t, st, end))))

chunk_text(t, cs, ov) ==
    IF Len(t) <= cs THEN SingleChunk(t) ELSE ChunkLoop(t, cs, ov, 0, <<>>)

\* ------------------------------------------------------------------------
\* IndexingPipeline.generate_embeddings and store_in_database
\* ------------------------------------------------------------------------
MaxTail == 2       \* texts beyond two full batches

\* line 98
BatchSize == 100

\* line 115
FallbackDim == 3072

\* vector lengths of the deployment AZURE_OPENAI_EMBEDDING_DEPLOYMENT names
\* (line 24): the default text-embedding-3-large, or a smaller model
ModelDims == {FallbackDim, FallbackDim \div 2}

\* A vector is known by its length, by whether it is all zero and, when it
\* is the model's embedding of a text, by that text.
ModelVector(t, d) == [dim |-> d, zero |-> FALSE, of |-> t]

ZeroVector(d) == [dim |-> d, zero |-> TRUE, of |-> 0]

\* line 101: texts[i:i + batch_size]
Batch(ts, i) == Slice(ts, i, i + BatchSize)

\* line 113: i // batch_size + 1
BatchNumber(i) == i \div BatchSize + 1

\* lines 106-110: the remote call answers one embedding per input, in order
RemoteEmbeddings(batch, d) ==
    [j \in 1..Len(batch) |-> ModelVector(batch[j], d)]

\* line 116 with one zero vector for the whole batch
FallbackOnePerBatch(batch) == <<ZeroVector(FallbackDim)>>

\* line 116: [[0.0] * fallback_dim for _ in batch]
FallbackEmbeddings(batch) ==
    [j \in 1..Len(batch) |-> ZeroVector(FallbackDim)]

\* a collection.add that takes embeddings of any length
AddAcceptsDims(embs) == FALSE

\* collection.add rejects embeddings whose length differs from the length
\* of the first embedding the collection received
AddRejectsDims(embs) ==
    \E i, j \in 1..Len(embs) : embs[i].dim # embs[j].dim

\* store_in_database lines 123-124: `if not chunks: return`
StoreEmpty ==
    /\ epc = "call"
    /\ texts = <<>>
    /\ epc' = "stored"
    /\ UNCHANGED <<texts, failing, embedding_dim, batch_i, submitted,
                   embeddings, written>>
    /\ UNCHANGED chunkVars
    /\ UNCHANGED svcVars

\* generate_embeddings lines 97-98, entered from line 127 or directly
EmbedEnter ==
    /\ epc = "call"
    /\ epc' = "loop"
    /\ batch_i' = 0
    /\ embeddings' = <<>>
    /\ UNCHANGED <<texts, failing, embedding_dim, submitted, written>>
    /\ UNCHANGED chunkVars
    /\ UNCHANGED svcVars

\* one iteration of the loop of line 100
EmbedBatch ==
    /\ epc = "loop"
    /\ batch_i < Len(texts)
    /\ LET batch == Batch(texts, batch_i)
       IN /\ submitted' = submitted \cup {BatchNumber(batch_i)}
          /\ embeddings' = embeddings \o
                (IF BatchNumber(batch_i) \in failing
                 THEN FallbackEmbeddings(batch)
                 ELSE RemoteEmbeddings(batch, embedding_dim))
    /\ batch_i' = batch_i + BatchSize
    /\ UNCHANGED <<texts, failing, embedding_dim, epc, written>>
    /\ UNCHANGED chunkVars
    /\ UNCHANGED svcVars

\* line 119: `return embeddings`
EmbedReturn ==
    /\ epc = "loop"
    /\ batch_i >= Len(texts)
    /\ epc' = "returned"
    /\ UNCHANGED <<texts, failing, embedding_dim, batch_i, submitted,
                   embeddings, written>>
    /\ UNCHANGED chunkVars
    /\ UNCHANGED svcVars

\* store_in_database lines 130-138 on the collection run() has just
\* recreated: the ids of distinct chunks are distinct
StoreAdd ==
    /\ epc = "returned"
    /\ texts # <<>>
    /\ IF AddRejectsDims(embeddings)
       THEN epc' = "raised" /\ UNCHANGED written
       ELSE epc' = "stored" /\ written' = embeddings
    /\ UNCHANGED <<texts, failing, embedding_dim, batch_i, submitted,
                   embeddings>>
    /\ UNCHANGED chunkVars
    /\ UNCHANGED svcVars

\* the chunks are told apart by their position; any batches may fail
EmbedInit ==
    /\ \E n \in 0..(2 * BatchSize + MaxTail) :
          /\ texts = [k \in 1..n |-> k]
          /\ failing \in SUBSET (1..CeilDiv(n, BatchSize))
    /\ embedding_dim \in ModelDims
    /\ epc = "call"
    /\ batch_i = 0
    /\ submitted = {}
    /\ embeddings = <<>>
    /\ written = <<>>
    /\ ChunkIdle
    /\ ServiceIdle

EmbedNext ==
    \/ StoreEmpty
    \/ EmbedEnter
    \/ EmbedBatch
    \/ EmbedReturn
    \/ StoreAdd

EmbedSpec == EmbedInit /\ [][EmbedNext]_vars

\* ---- properties of generate_embeddings and store_in_database ----
EmbedReturned == epc \in {"returned", "stored", "raised"}

\* the batch the text at position k (from 1) belongs to
BatchOf(k) == BatchNumber(k - 1)

\* C14: generate_embeddings returns one vector per input text, in input
\* order: the all-zero vector of 3072 entries for every text of a batch
\* whose remote call failed, the model's embedding of the text otherwise;
\* every batch is submitted whatever became of the batches before it, and
\* the empty input yields the empty output.
C14_OneVectorPerTextInOrder ==
    EmbedReturned =>
        /\ Len(embeddings) = Len(texts)
        /\ \A k \in 1..Len(texts) :
              embeddings[k] = IF BatchOf(k) \in failing
                              THEN ZeroVector(FallbackDim)
                              ELSE ModelVector(texts[k], embedding_dim)
        /\ submitted = 1..CeilDiv(Len(texts), BatchSize)

C14_Witness ==
    /\ epc = "returned"
    /\ Len(texts) > 2 * BatchSize
    /\ failing = {2}
    /\ embeddings[BatchSize + 1].zero
    /\ ~embeddings[2 * BatchSize + 1].zero

MaxUid == 3        \* collections created in one behaviour

\* main_free.py:48 auto-indexes "/demo-data"; a request may name any path:
\* the documents directory again, or a path under which nothing exists
AutoIndexPath == "/demo-data"

MissingPath == "/no-such-dir"

Paths == {AutoIndexPath, MissingPath}

\* the names a documents directory may hold, in the order glob lists them
FileOrder == <<"a.txt", "b.md", "c.csv">>

Files == {FileOrder[i] : i \in 1..Len(FileOrder)}

Extension == [f \in Files |-> CASE f = "a.txt" -> ".txt"
                                [] f = "b.md" -> ".md"
                                [] f = "c.csv" -> ".csv"]

\* embedding_pipeline.py:38-40
Patterns == <<".txt", ".md", ".pdf", ".docx">>

\* a document longer than the default chunk_size, which run() splits
LongDoc == [i \in 1..(DefaultChunkSize + 1) |-> "a"]

\* the contents a readable file may have: one chunk, or two
DocTexts == {<<"a">>, LongDoc}

FileStates ==
    {[kind |-> "absent", content |-> <<>>],
     [kind |-> "unreadable", content |-> <<>>]}
    \cup {[kind |-> "text", content |-> t] : t \in DocTexts}

NoFiles == [f \in Files |-> [kind |-> "absent", content |-> <<>>]]

\* the file name matches one of the patterns
Matches(f) == \E k \in 1..Len(Patterns) : Extension[f] = Patterns[k]

\* a file that matches no pattern is absent or holds a short text
OtherFileStates ==
    {[kind |-> "absent", content |-> <<>>],
     [kind |-> "text", content |-> <<"a">>]}

\* a directory that does not exist, or one with any files
DirStates ==
    {[exists |-> FALSE, files |-> NoFiles]}
    \cup {[exists |-> TRUE, files |-> fs] :
            fs \in {g \in [Files -> FileStates] :
                       \A f \in Files :
                          ~Matches(f) => g[f] \in OtherFileStates}}

\* md5 of the chunk text: the id is a function of the text alone, and
\* distinct texts get distinct ids
ChunkId(chunk) == chunk

\* ------------------------------------------------------------------------
\* IndexingPipeline / FreeIndexingPipeline
\* ------------------------------------------------------------------------
\* line 43: glob.glob(os.path.join(documents_path, pattern)); the glob of a
\* missing directory is empty
Glob(d, pat) ==
    SelectSeq(FileOrder,
              LAMBDA f : /\ d.exists
                         /\ d.files[f].kind # "absent"
                         /\ Extension[f] = pat)

\* lines 45-64 with every matching file counted as read
ReadableAll(d, fs) == fs

\* lines 45-64: a file that cannot be read is reported and skipped
Readable(d, fs) == SelectSeq(fs, LAMBDA f : d.files[f].kind = "text")

RECURSIVE LoadPatterns(_, _)
LoadPatterns(d, pats) ==
    IF pats = <<>> THEN <<>>
    ELSE Readable(d, Glob(d, Head(pats))) \o LoadPatterns(d, Tail(pats))

\* load_documents: the names of the files read, pattern by pattern
load_documents(d) == LoadPatterns(d, Patterns)

\* the chunks of the long document, evaluated once
LongDocChunks == chunk_text(LongDoc, DefaultChunkSize, DefaultOverlap)

\* line 161: self.chunk_text(doc['content'])
DefaultChunks(t) ==
    IF t = LongDoc THEN LongDocChunks
    ELSE chunk_text(t, DefaultChunkSize, DefaultOverlap)

\* run, step 2: the chunks of one document with their metadata
DocChunks(p, d, f) ==
    LET cks == DefaultChunks(d.files[f].content)
    IN [i \in 1..Len(cks) |->
           [id |-> ChunkId(cks[i]),
            document |-> cks[i],
            file_name |-> f,
            file_path |-> <<p, f>>,
            chunk_index |-> i - 1,
            total_chunks |-> Len(cks)]]

RECURSIVE AllChunks(_, _, _)
AllChunks(p, d, docs) ==
    IF docs = <<>> THEN <<>>
    ELSE DocChunks(p, d, Head(docs)) \o AllChunks(p, d, Tail(docs))

\* get_or_create_collection(name="documents", metadata={"hnsw:space": "cosine"})
GetOrCreate(st) ==
    IF st.uid # NoHandle THEN st
    ELSE [uid |-> 1, cosine |-> TRUE, entries |-> {}]

\* run, step 3: delete_collection raises when there is no collection, and
\* the bare except then skips create_collection and keeps the old handle
Rebuild(st, handle) ==
    IF st.uid = NoHandle
    THEN [store |-> st, handle |-> handle]
    ELSE [store |-> [uid |-> st.uid + 1, cosine |-> TRUE, entries |-> {}],
          handle |-> st.uid + 1]

\* collection.add raises on a handle whose collection is gone and on ids
\* repeated within the call
AddRaises(st, handle, recs) ==
    \/ handle = NoHandle
    \/ handle # st.uid
    \/ \E i, j \in 1..Len(recs) : i # j /\ recs[i].id = recs[j].id

\* store_in_database, the embedding step: FreeIndexingPipeline's
\* generate_embeddings (embedding_pipeline_free.py:79-81) lets a failure of
\* encode leave; IndexingPipeline's catches every failure of the remote call
EmbedRaises(v, embed_ok) == v = "free" /\ ~embed_ok

\* run(documents_path) on directory d: the collection and the pipeline's
\* handle afterwards, and the result returned ("error": an exception leaves)
Run(v, p, d, st, handle, embed_ok) ==
    LET docs == load_documents(d)
        recs == AllChunks(p, d, docs)
        rb == Rebuild(st, handle)
    IN IF docs = <<>>
       THEN [store |-> st, handle |-> handle, status |-> "ok",
             documents_processed |-> 0, chunks_created |-> 0]
       ELSE IF /\ recs # <<>>
               /\ \/ EmbedRaises(v, embed_ok)
                  \/ AddRaises(rb.store, rb.handle, recs)
       THEN [store |-> rb.store, handle |-> rb.handle, status |-> "error",
             documents_processed |-> 0, chunks_created |-> 0]
       ELSE [store |-> [rb.store EXCEPT
                           !.entries = @ \cup {recs[i] : i \in 1..Len(recs)}],
             handle |-> rb.handle, status |-> "ok",
             documents_processed |-> Len(docs),
             chunks_created |-> Len(recs)]

\* the run deletes and recreates the collection
Rebuilds(d, st) == load_documents(d) # <<>> /\ st.uid # NoHandle

\* ------------------------------------------------------------------------
\* RAGEngine / FreeRAGEngine
\* ------------------------------------------------------------------------
\* RAGEngine.__init__ (rag_engine.py:7-28): raises without credentials and
\* when get_collection finds no collection; the caller then keeps None
RemoteEngine(cfg, st) ==
    IF cfg /\ st.uid # NoHandle
    THEN [made |-> TRUE, collection |-> st.uid]
    ELSE NoEngine

\* FreeRAGEngine.__init__ (rag_engine_free.py:6-13): get_collection, and
\* create_collection("documents") with no metadata when that raises
FreeEngineStore(st) ==
    IF st.uid # NoHandle THEN st
    ELSE [uid |-> 1, cosine |-> FALSE, entries |-> {}]

FreeEngine(st) == [made |-> TRUE, collection |-> FreeEngineStore(st).uid]

\* ---- texts of the responses ----
\* A fixed message is a text of one symbol; document text is a sequence of
\* characters.  Every fixed message is shorter than the 200 characters of
\* AnswerCut, as its one symbol is.
NoInfoAnswer ==
    <<"I couldn't find relevant information to answer your question. Please try rephrasing your question or check if the documents have been indexed.">>

GenerationErrorAnswer ==
    <<"I encountered an error while generating the answer. Please try again.">>

\* the text of the chat completion, which the engine returns as it is
ModelReply == <<"response.choices[0].message.content">>

SystemSource ==
    [content |-> <<"I couldn't retrieve relevant information from the documents. Please ensure documents are properly indexed.">>,
     source |-> "System", score |-> 0]

UnavailableAnswer ==
    <<"I apologize, but I'm experiencing technical difficulties.">>

ErrorSource ==
    [content |-> <<"Error occurred">>, source |-> "System", score |-> 0]

TemplatePreamble == <<"Based on the available information:", NL, NL>>

Ellipsis == <<".", ".", ".">>

\* request.n_results of AskRequest (main.py:35, main_free.py:30)
DefaultNResults == 3

\* cosine distances lie between 0 and 2: those of an entry pointing the way
\* of the question, one at right angles to it and one pointing the other way
Distances == {0, 1, 2}

\* the one distance followed where the whole service is explored
ExactMatch == {0}

\* one row of the result of collection.query
Hit(e, d) == [document |-> e.document, file_name |-> e.file_name,
              distance |-> d]

\* collection.query(query_embeddings, n_results): the n_results nearest
\* entries, or all entries when there are fewer, by ascending distance; the
\* possible answers of the index
QueryHits(st, n, ds) ==
    LET k == Min(Max(n, 0), Cardinality(st.entries))
    IN {h \in [1..k -> {Hit(e, d) : e \in st.entries, d \in ds}] :
           /\ \A i, j \in 1..k : i # j => h[i].document # h[j].document
           /\ \A i, j \in 1..k : i < j => h[i].distance <= h[j].distance}

\* line 55 / 39: 'score': 1 - results['distances'][0][i]
Score(distance) == 1 - distance

\* lines 49-57 / 33-41: one source per returned document, in result order
FormatSources(hits) ==
    [i \in 1..Len(hits) |->
        [content |-> hits[i].document, source |-> hits[i].file_name,
         score |-> Score(hits[i].distance)]]

\* collection.query raises when n_results is not positive
QueryRaises(query_ok, n) == ~query_ok \/ n <= 0

\* RAGEngine.retrieve (rag_engine.py:30-62).  embed_ok: the embedding call
\* succeeds; query_ok: the index answers the query.  The handle is
\* re-acquired by name before the query; every exception yields [].
RemoteRetrieve(eng, st, embed_ok, query_ok, n, hits) ==
    IF ~embed_ok \/ st.uid = NoHandle
    THEN [engine |-> eng, queried |-> NoHandle, results |-> <<>>,
          sources |-> <<>>]
    ELSE [engine |-> [eng EXCEPT !.collection = st.uid],
          queried |-> st.uid,
          results |-> IF QueryRaises(query_ok, n) THEN <<>> ELSE hits,
          sources |-> IF QueryRaises(query_ok, n) THEN <<>>
                      ELSE FormatSources(hits)]

\* FreeRAGEngine.retrieve (rag_engine_free.py:15-47): count() and query()
\* go to self.collection as obtained in __init__; on a handle whose
\* collection was deleted count() raises.  Every exception yields the
\* System source.
FreeRetrieve(eng, st, embed_ok, query_ok, n, hits) ==
    LET answered == /\ eng.collection = st.uid
                    /\ st.entries # {}
                    /\ embed_ok
                    /\ ~QueryRaises(query_ok, n)
    IN [engine |-> eng,
        queried |-> eng.collection,
        results |-> IF answered THEN hits ELSE <<>>,
        sources |-> IF eng.collection # st.uid THEN <<SystemSource>>
                    ELSE IF st.entries = {} THEN <<>>
                    ELSE IF ~embed_ok \/ QueryRaises(query_ok, n)
                    THEN <<SystemSource>>
                    ELSE FormatSources(hits)]

\* generate_answer without the test of lines 66-67
RemoteGenerateAlways(sources, generate_ok) ==
    [answer |-> IF generate_ok THEN ModelReply ELSE GenerationErrorAnswer,
     generation_called |-> TRUE]

\* RAGEngine.generate_answer (rag_engine.py:64-103).  generate_ok: the chat
\* completion succeeds.
RemoteGenerateAnswer(sources, generate_ok) ==
    IF sources = <<>>
    THEN [answer |-> NoInfoAnswer, generation_called |-> FALSE]
    ELSE [answer |-> IF generate_ok THEN ModelReply
                     ELSE GenerationErrorAnswer,
          generation_called |-> TRUE]

\* rag_engine_free.py:58-62
AnswerSources == 2

AnswerCut == 200

AnswerPart(content) ==
    IF Len(content) > AnswerCut
    THEN SubSeq(content, 1, AnswerCut) \o Ellipsis
    ELSE content

\* "\n\n".join(answer_parts)
RECURSIVE JoinParts(_)
JoinParts(parts) ==
    IF parts = <<>> THEN <<>>
    ELSE IF Len(parts) = 1 THEN parts[1]
    ELSE parts[1] \o <<NL, NL>> \o JoinParts(Tail(parts))

\* generate_answer with every source used, not sources[:2]
FreeGenerateAll(sources) ==
    IF sources = <<>> THEN NoInfoAnswer
    ELSE TemplatePreamble
         \o JoinParts([i \in 1..Len(sources) |->
                          AnswerPart(sources[i].content)])

\* FreeRAGEngine.generate_answer (rag_engine_free.py:49-70)
FreeGenerateAnswer(sources) ==
    IF sources = <<>> THEN NoInfoAnswer
    ELSE LET top == SubSeq(sources, 1, Min(AnswerSources, Len(sources)))
         IN TemplatePreamble
            \o JoinParts([i \in 1..Len(top) |-> AnswerPart(top[i].content)])

\* RAGEngine.get_stats (rag_engine.py:115-123): the handle is re-acquired by
\* name; when get_collection raises, the count reported is 0
RemoteGetStats(eng, st) ==
    IF st.uid = NoHandle
    THEN [engine |-> eng, total_documents |-> 0]
    ELSE [engine |-> [eng EXCEPT !.collection = st.uid],
          total_documents |-> Cardinality(st.entries)]

\* FreeRAGEngine.get_stats (rag_engine_free.py:87-93): count() on
\* self.collection as obtained in __init__; when it raises, 0
FreeGetStats(eng, st) ==
    [engine |-> eng,
     total_documents |-> IF eng.collection # st.uid THEN 0
                         ELSE Cardinality(st.entries)]

\* the status under which a response to ask is recorded
AskStatus(sources) ==
    IF sources = <<>> THEN "empty"
    ELSE IF sources = <<SystemSource>> THEN "fallback"
    ELSE "sources"

\* ------------------------------------------------------------------------
\* The service: main.py / main_free.py
\* ------------------------------------------------------------------------
\* module body (main.py:30, main_free.py:25): the pipeline is constructed at
\* import; IndexingPipeline.__init__ raises without credentials
Import ==
    /\ svc = "import"
    /\ IF variant = "remote" /\ ~configured
       THEN /\ svc' = "crashed"
            /\ UNCHANGED <<store, pipeline_collection>>
       ELSE /\ svc' = "startup"
            /\ store' = GetOrCreate(store)
            /\ pipeline_collection' = GetOrCreate(store).uid
    /\ UNCHANGED <<variant, configured, dirs, rag_engine, last>>
    /\ UNCHANGED chunkVars
    /\ UNCHANGED embedVars

\* `python rag_engine_free.py` (rag_engine_free.py:95-105), run in the
\* service's directory before the service is started: constructs
\* FreeRAGEngine on the same ./chroma_db_free, asks one question and exits
EngineScript ==
    /\ svc = "import"
    /\ variant = "free"
    /\ store' = FreeEngineStore(store)
    /\ UNCHANGED <<variant, configured, svc, dirs, pipeline_collection,
                   rag_engine, last>>
    /\ UNCHANGED chunkVars
    /\ UNCHANGED embedVars

\* startup_event of main.py (lines 40-61)
StartupRemote ==
    /\ svc = "startup"
    /\ variant = "remote"
    /\ rag_engine' = IF configured THEN RemoteEngine(configured, store)
                     ELSE NoEngine
    /\ svc' = "serving"
    /\ UNCHANGED <<variant, configured, dirs, store, pipeline_collection, last>>
    /\ UNCHANGED chunkVars
    /\ UNCHANGED embedVars

\* startup_event of main_free.py (lines 35-57): the engine first, then the
\* automatic index run, whose exceptions are caught.  engine_ok: the
\* construction of FreeRAGEngine succeeds (its embedding model loads); when
\* it raises, rag_engine stays None and the index run is skipped.
\* embed_ok: the embedding of the chunks succeeds.
StartupFree(engine_ok, embed_ok) ==
    /\ svc = "startup"
    /\ variant = "free"
    /\ IF engine_ok
       THEN LET st == FreeEngineStore(store)
                out == Run(variant, AutoIndexPath, dirs[AutoIndexPath], st,
                           pipeline_collection, embed_ok)
            IN /\ rag_engine' = FreeEngine(store)
               /\ store' = out.store
               /\ pipeline_collection' = out.handle
               /\ last' = [NoRequest EXCEPT
                              !.op = "index", !.path = AutoIndexPath,
                              !.status = out.status,
                              !.embed_ok = embed_ok,
                              !.documents_processed = out.documents_processed,
                              !.chunks_created = out.chunks_created]
       ELSE /\ rag_engine' = NoEngine
            /\ UNCHANGED <<store, pipeline_collection, last>>
    /\ svc' = "serving"
    /\ UNCHANGED <<variant, configured, dirs>>
    /\ UNCHANGED chunkVars
    /\ UNCHANGED embedVars

\* POST /api/index (main.py:86-96, main_free.py:104-114); embed_ok: the
\* embedding of the chunks succeeds
IndexRequest(p, embed_ok) ==
    /\ svc = "serving"
    /\ Rebuilds(dirs[p], store) => store.uid < MaxUid
    /\ LET out == Run(variant, p, dirs[p], store, pipeline_collection,
                      embed_ok)
       IN /\ store' = out.store
          /\ pipeline_collection' = out.handle
          /\ last' = [NoRequest EXCEPT
                         !.op = "index", !.path = p,
                         !.status = out.status,
                         !.embed_ok = embed_ok,
                         !.documents_processed = out.documents_processed,
                         !.chunks_created = out.chunks_created]
    /\ UNCHANGED <<variant, configured, svc, dirs, rag_engine>>
    /\ UNCHANGED chunkVars
    /\ UNCHANGED embedVars

\* the outcome of a call is an input only when the call before it has
\* succeeded: the query follows the embedding, the generation the query
CallsMade(embed_ok, query_ok, generate_ok, n) ==
    /\ ~embed_ok => query_ok
    /\ (~embed_ok \/ QueryRaises(query_ok, n)) => generate_ok

\* what the index may answer to the query of an ask, <<>> when none is made
Answers(st, embed_ok, query_ok, n, ds) ==
    IF embed_ok /\ ~QueryRaises(query_ok, n) THEN QueryHits(st, n, ds)
    ELSE {<<>>}

\* POST /api/ask of main.py (lines 71-84): RAGEngine.ask (rag_engine.py:
\* 105-113) is retrieve, then generate_answer
AskRemote(n, embed_ok, query_ok, generate_ok, hits) ==
    /\ svc = "serving"
    /\ variant = "remote"
    /\ CallsMade(embed_ok, query_ok, generate_ok, n)
    /\ IF ~rag_engine.made
       THEN /\ last' = [NoRequest EXCEPT !.op = "ask",
                                         !.status = "unavailable"]
            /\ UNCHANGED rag_engine
       ELSE LET out == RemoteRetrieve(rag_engine, store, embed_ok, query_ok,
                                      n, hits)
                gen == RemoteGenerateAnswer(out.sources, generate_ok)
            IN /\ rag_engine' = out.engine
               /\ last' = [NoRequest EXCEPT
                              !.op = "ask",
                              !.status = AskStatus(out.sources),
                              !.queried = out.queried,
                              !.n_results = n,
                              !.embed_ok = embed_ok,
                              !.query_ok = query_ok,
                              !.generate_ok = generate_ok,
                              !.generation_called = gen.generation_called,
                              !.results = out.results,
                              !.sources = out.sources,
                              !.answer = gen.answer]
    /\ UNCHANGED <<variant, configured, svc, dirs, store, pipeline_collection>>
    /\ UNCHANGED chunkVars
    /\ UNCHANGED embedVars

\* POST /api/ask of main_free.py (lines 67-102): constructs the engine when
\* there is none yet; engine_ok: that construction succeeds.
\* FreeRAGEngine.ask (rag_engine_free.py:72-85) is retrieve, then
\* generate_answer; neither lets an exception leave.
AskFree(engine_ok, n, embed_ok, query_ok, hits) ==
    /\ svc = "serving"
    /\ variant = "free"
    /\ CallsMade(embed_ok, query_ok, TRUE, n)
    /\ rag_engine.made => engine_ok
    /\ IF ~rag_engine.made /\ ~engine_ok
       THEN /\ last' = [NoRequest EXCEPT !.op = "ask",
                                         !.status = "unavailable",
                                         !.sources = <<ErrorSource>>,
                                         !.answer = UnavailableAnswer]
            /\ UNCHANGED <<rag_engine, store>>
       ELSE LET eng == IF rag_engine.made THEN rag_engine
                       ELSE FreeEngine(store)
                st == IF rag_engine.made THEN store
                      ELSE FreeEngineStore(store)
                out == FreeRetrieve(eng, st, embed_ok, query_ok, n, hits)
            IN /\ rag_engine' = out.engine
               /\ store' = st
               /\ last' = [NoRequest EXCEPT
                              !.op = "ask",
                              !.status = AskStatus(out.sources),
                              !.queried = out.queried,
                              !.n_results = n,
                              !.embed_ok = embed_ok,
                              !.query_ok = query_ok,
                              !.results = out.results,
                              !.sources = out.sources,
                              !.answer = FreeGenerateAnswer(out.sources)]
    /\ UNCHANGED <<variant, configured, svc, dirs, pipeline_collection>>
    /\ UNCHANGED chunkVars
    /\ UNCHANGED embedVars

\* GET /api/stats (main.py:98-110, main_free.py:116-128)
StatsRequest ==
    /\ svc = "serving"
    /\ IF ~rag_engine.made
       THEN /\ last' = [NoRequest EXCEPT !.op = "stats",
                                         !.status = "unavailable"]
            /\ UNCHANGED rag_engine
       ELSE LET out == IF variant = "remote"
                       THEN RemoteGetStats(rag_engine, store)
                       ELSE FreeGetStats(rag_engine, store)
            IN /\ rag_engine' = out.engine
               /\ last' = [NoRequest EXCEPT
                              !.op = "stats", !.status = "ok",
                              !.total_documents = out.total_documents]
    /\ UNCHANGED <<variant, configured, svc, dirs, store, pipeline_collection>>
    /\ UNCHANGED chunkVars
    /\ UNCHANGED embedVars

\* one change of the file system: the directory is created empty or removed,
\* or one file in it is added, removed, rewritten or made unreadable
OneEdit(d, e) ==
    \/ d.exists # e.exists /\ e.files = NoFiles /\ (e.exists => d.files = NoFiles)
    \/ /\ d.exists
       /\ e.exists
       /\ \E f \in Files :
             /\ e.files[f] # d.files[f]
             /\ \A g \in Files \ {f} : e.files[g] = d.files[g]

\* the environment changes the files under a path
EditDocuments(p, d) ==
    /\ svc = "serving"
    /\ p # MissingPath
    /\ OneEdit(dirs[p], d)
    /\ dirs' = [dirs EXCEPT ![p] = d]
    /\ last' = [NoRequest EXCEPT !.op = "edit", !.path = p]
    /\ UNCHANGED <<variant, configured, svc, store, pipeline_collection,
                   rag_engine>>
    /\ UNCHANGED chunkVars
    /\ UNCHANGED embedVars

\* the n_results of the requests explored: none, fewer than the default,
\* the default
AskedResults == {0, 1, DefaultNResults}

\* a collection persisted by an earlier process of the same deployment
PersistedStores ==
    {NoCollection, [uid |-> 1, cosine |-> TRUE, entries |-> {}]}

Init ==
    /\ ChunkIdle
    /\ EmbedIdle
    /\ variant \in {"remote", "free"}
    /\ configured \in BOOLEAN
    /\ variant = "free" => configured
    /\ svc = "import"
    /\ dirs \in [Paths -> DirStates]
    /\ ~dirs[MissingPath].exists
    /\ store \in PersistedStores
    /\ pipeline_collection = NoHandle
    /\ rag_engine = NoEngine
    /\ last = NoRequest

Next ==
    \/ EngineScript
    \/ Import
    \/ StartupRemote
    \/ \E engine_ok, embed_ok \in BOOLEAN : StartupFree(engine_ok, embed_ok)
    \/ \E p \in Paths, embed_ok \in BOOLEAN : IndexRequest(p, embed_ok)
    \/ \E n \in AskedResults, embed_ok, query_ok, generate_ok \in BOOLEAN :
          \E hits \in Answers(store, embed_ok, query_ok, n, ExactMatch) :
             AskRemote(n, embed_ok, query_ok, generate_ok, hits)
    \/ \E engine_ok, embed_ok, query_ok \in BOOLEAN, n \in AskedResults :
          \E hits \in Answers(store, embed_ok, query_ok, n, ExactMatch) :
             AskFree(engine_ok, n, embed_ok, query_ok, hits)
    \/ StatsRequest
    \/ \E p \in Paths, d \in DirStates : EditDocuments(p, d)

Spec == Init /\ [][Next]_vars

\* the service with the files left as they are, asked under every distance
AskNext ==
    \/ Import
    \/ StartupRemote
    \/ \E engine_ok, embed_ok \in BOOLEAN : StartupFree(engine_ok, embed_ok)
    \/ \E p \in Paths, embed_ok \in BOOLEAN : IndexRequest(p, embed_ok)
    \/ \E n \in AskedResults, embed_ok, query_ok, generate_ok \in BOOLEAN :
          \E hits \in Answers(store, embed_ok, query_ok, n, Distances) :
             AskRemote(n, embed_ok, query_ok, generate_ok, hits)
    \/ \E engine_ok, embed_ok, query_ok \in BOOLEAN, n \in AskedResults :
          \E hits \in Answers(store, embed_ok, query_ok, n, Distances) :
             AskFree(engine_ok, n, embed_ok, query_ok, hits)

AskSpec == Init /\ [][AskNext]_vars

\* ------------------------------------------------------------------------
\* Properties of the index run and of retrieve
\* ------------------------------------------------------------------------
\* the entries an index run over path p writes for the files now under p
EntriesOf(p) ==
    LET recs == AllChunks(p, dirs[p], load_documents(dirs[p]))
    IN {recs[i] : i \in 1..Len(recs)}

IndexReturned == last.op = "index" /\ last.status = "ok"

\* C9: after any index run returns, also one over a directory without
\* matching documents, the index holds no entry of an earlier run: every
\* entry belongs to a document the run has just read.
C9_NoStaleEntriesAfterRun ==
    IndexReturned => store.entries \subseteq EntriesOf(last.path)

\* C10: a retrieve issued after an index run has recreated the collection
\* queries the recreated collection, in the remote and in the free engine.
C10_RetrieveQueriesCurrentCollection ==
    (last.op = "ask" /\ last.queried # NoHandle) => last.queried = store.uid

\* ------------------------------------------------------------------------
\* Properties of retrieve, ask and stats
\* ------------------------------------------------------------------------
\* the last request was an ask that reached the engine
Asked == last.op = "ask" /\ last.status # "unavailable"

IndexEmpty == store.entries = {}

\* the embedding call or the index query of the last ask failed
RetrieveFailed == ~last.embed_ok \/ QueryRaises(last.query_ok, last.n_results)

\* C11: retrieve returns the empty sequence whenever the index is empty or
\* the embedding call or the index query fails, in both engines.
C11_RetrieveEmptyOnFailure ==
    (Asked /\ (IndexEmpty \/ RetrieveFailed)) => last.sources = <<>>

\* every source of the last response carries the label "System"
SystemLabelled ==
    \A i \in 1..Len(last.sources) : last.sources[i].source = "System"

\* C12: ask returns an (answer, sources) pair under every combination of
\* failures of the question embedding, the index query and the answer
\* generation; against an empty index the answer is the fixed
\* couldn't-find-relevant-information message and the sources are empty or
\* System-labelled.
C12_AskNeverRaisesFixedAnswerOnEmptyIndex ==
    Asked =>
        /\ last.answer # <<>>
        /\ IndexEmpty => (last.answer = NoInfoAnswer /\ SystemLabelled)

\* ------------------------------------------------------------------------
\* Properties of the index run
\* ------------------------------------------------------------------------
\* the last request was an index run; the files are as the run saw them
Indexed == last.op = "index"

\* C13: an index run over a documents path that does not exist ends with an
\* error; it does not return a result of zero documents and zero chunks.
C13_MissingPathIsAnError ==
    (Indexed /\ ~dirs[last.path].exists) => last.status = "error"

\* the chunks of the last index run, in the order they were stored
RunChunks == AllChunks(last.path, dirs[last.path],
                       load_documents(dirs[last.path]))

\* two chunks of the run have the same text
RunHasDuplicateText ==
    \E i, j \in 1..Len(RunChunks) :
        i < j /\ RunChunks[i].document = RunChunks[j].document

\* per id the chunk stored last
LastWritten(recs) ==
    {recs[j] : j \in {k \in 1..Len(recs) :
                         \A l \in (k + 1)..Len(recs) : recs[l].id # recs[k].id}}

\* C16: the id of an entry is a function of the chunk text alone and storing
\* overwrites by id: a run with two chunks of identical text completes, and
\* the index then holds one entry for that text, with the metadata of the
\* later chunk.
C16_StoreIsUpsertById ==
    (Indexed /\ last.embed_ok /\ RunHasDuplicateText) =>
        /\ last.status = "ok"
        /\ store.entries = LastWritten(RunChunks)

\* C17: stats reports the current number of entries: after an index run
\* has rebuilt the collection and stored n entries, the next stats returns
\* n, in both engines, also when the engine was constructed before the run.
C17_StatsReportsCurrentCount ==
    (last.op = "stats" /\ last.status = "ok") =>
        last.total_documents = Cardinality(store.entries)

\* the matching files under the path of the last run that can be read
ReadFiles ==
    {f \in Files : /\ dirs[last.path].exists
                   /\ Matches(f)
                   /\ dirs[last.path].files[f].kind = "text"}

UnreadableFiles ==
    {f \in Files : /\ dirs[last.path].exists
                   /\ Matches(f)
                   /\ dirs[last.path].files[f].kind = "unreadable"}

RECURSIVE ChunkTotal(_)
ChunkTotal(S) ==
    IF S = {} THEN 0
    ELSE LET f == CHOOSE g \in S : TRUE
         IN Len(DefaultChunks(dirs[last.path].files[f].content))
            + ChunkTotal(S \ {f})

\* C18: a matching file that cannot be read is skipped and the index run
\* goes on: it does not fail because of that file, documents_processed is
\* the number of matching files that were read, and chunks_created is the
\* number of chunks of those files.
C18_UnreadableFilesSkipped ==
    Indexed =>
        /\ last.status = "ok" =>
              /\ last.documents_processed = Cardinality(ReadFiles)
              /\ last.chunks_created = ChunkTotal(ReadFiles)
        /\ last.status = "error" =>
              RunHasDuplicateText \/ EmbedRaises(variant, last.embed_ok)

C18_Witness ==
    /\ Indexed
    /\ last.status = "ok"
    /\ UnreadableFiles # {}
    /\ last.documents_processed = 1
    /\ last.chunks_created = 2
    /\ Cardinality(store.entries) = 2

\* ------------------------------------------------------------------------
\* Properties of construction
\* ------------------------------------------------------------------------
\* C19: the collection "documents" is in cosine space in every reachable
\* state: the pipeline's constructor, the rebuild of an index run and the
\* free engine's create-if-missing fallback all create it so.
C19_CollectionAlwaysCosine ==
    store.uid # NoHandle => store.cosine

\* C20: without the remote endpoint or API key the service does not crash:
\* the failure of the engine's and of the indexing pipeline's construction
\* is caught and the service comes up with the engine not initialized.
C20_MissingCredentialsDegrade ==
    (variant = "remote" /\ ~configured) =>
        /\ svc # "crashed"
        /\ ~rag_engine.made

\* ------------------------------------------------------------------------
\* Properties of the sources and of the answer
\* ------------------------------------------------------------------------
\* C21: retrieve returns at most n_results sources, one per result of the
\* index and in the order of the results, so by non-increasing score, and
\* the score of each source is 1 - distance of its result, unclamped.
C21_SourcesFollowResults ==
    Asked =>
        /\ Len(last.sources) <= last.n_results
        /\ Len(last.sources) = Len(last.results)
        /\ \A i \in 1..Len(last.sources) :
              /\ last.sources[i].content = last.results[i].document
              /\ last.sources[i].score + last.results[i].distance = 1
        /\ \A i, j \in 1..Len(last.sources) :
              i < j => last.sources[i].score >= last.sources[j].score

\* C22: in the generative engine the chat completion is called during ask
\* exactly when retrieve returned at least one source; with no source the
\* answer is the fixed couldn't-find-relevant-information message.
C22_GenerationIffSources ==
    (Asked /\ variant = "remote") =>
        /\ last.generation_called <=> last.sources # <<>>
        /\ last.sources = <<>> => last.answer = NoInfoAnswer
        /\ last.sources # <<>> =>
              last.answer = IF last.generate_ok THEN ModelReply
                            ELSE GenerationErrorAnswer

C22_Witness ==
    /\ Asked
    /\ variant = "remote"
    /\ store.entries # {}
    /\ last.sources = <<>>
    /\ ~last.generation_called
    /\ last.answer = NoInfoAnswer

\* a content as the template answer shows it: whole when it has at most 200
\* characters, else its first 200 characters and three dots
Shown(content) ==
    IF Len(content) <= AnswerCut THEN content
    ELSE [i \in 1..(AnswerCut + 3) |->
             IF i <= AnswerCut THEN content[i] ELSE "."]

\* C23: in the template-only engine the answer to a non-empty source list
\* is the fixed preamble followed by the contents of the first
\* min(2, len(sources)) sources in rank order, each cut to 200 characters
\* plus an ellipsis when longer; a source ranked third or later does not
\* appear.
C23_TemplateAnswerTopTwo ==
    (Asked /\ variant = "free" /\ last.sources # <<>>) =>
        last.answer =
            IF Len(last.sources) = 1
            THEN TemplatePreamble \o Shown(last.sources[1].content)
            ELSE TemplatePreamble \o Shown(last.sources[1].content)
                 \o <<NL, NL>> \o Shown(last.sources[2].content)

C23_Witness ==
    /\ Asked
    /\ variant = "free"
    /\ Len(last.sources) = 3
    /\ Len(last.sources[1].content) > AnswerCut
    /\ Len(last.sources[2].content) <= AnswerCut
    /\ Len(last.answer) = Len(TemplatePreamble) + AnswerCut + 3 + 2
                          + Len(last.sources[2].content)

\* C24: an index run that ends with an error leaves the index with the
\* entries it had before the run.
C24_FailedRunKeepsEntries ==
    [][(last'.op = "index" /\ last'.status = "error")
          => store'.entries = store.entries]_vars

====
